---- MODULE Spec2Model ----
(***************************************************************************)
(* The restaurant-app backends: src/server.js and src/unnamed/part_000     *)
(* (register / login only) and src/unnamed/part_001 (register, login and   *)
(* the emailed-OTP password reset).                                        *)
(*                                                                         *)
(* Every handler is an async function; it is cut at its awaits on the      *)
(* database and on the mail transport, so requests interleave exactly      *)
(* where the event loop can interleave them.  An await on bcrypt touches   *)
(* no shared state and is folded into the step that follows it.  Time is   *)
(* Date.now() in milliseconds.                                             *)
(***************************************************************************)
EXTENDS Integers, Sequences, FiniteSets, TLC

\* ------------------------------------------------------------------ bounds
\* Requests received in all, when they interleave and when they come one at a time.
MaxRequests == 3
MaxSeqRequests == 4
MaxPairRequests == 2

\* --------------------------------------------------------- JS value space
\* A String path that was never set reads undefined; one set to null reads null.
Undefined == "undefined"
Null == "null"
\* The same two values for a Date path (a set Date is its getTime(), >= 0).
UndefinedDate == -1
NullDate == -2

\* The deployed file.
Variants == {"server.js", "part_000", "part_001"}
IsLegacy(v) == v \in {"server.js", "part_000"}

\* Request bodies.  An email is a sequence of characters.
RawEmails == { <<"a">>, <<"A">>, <<" ", "a">> }
Passwords == {"p1", "p2"}
OtpCodes == {"100000", "999999"}
Candidates == OtpCodes \cup {Undefined, Null}

\* String.prototype.toLowerCase, per character.
LowerChar(c) == IF c = "A" THEN "a" ELSE c
toLowerCase(s) == [i \in 1..Len(s) |-> LowerChar(s[i])]

\* String.prototype.trim: strip leading and trailing white space.
RECURSIVE trimStart(_)
trimStart(s) == IF s # <<>> /\ Head(s) = " " THEN trimStart(Tail(s)) ELSE s
RECURSIVE trimEnd(_)
trimEnd(s) == IF s # <<>> /\ s[Len(s)] = " " THEN trimEnd(SubSeq(s, 1, Len(s) - 1)) ELSE s
trim(s) == trimEnd(trimStart(s))

\* (email || '').trim().toLowerCase()
normalizedEmail(raw) == toLowerCase(trim(raw))

\* What a handler looks the email up by: part_001 normalizes, the others do not.
LookupEmail(v, raw) == IF IsLegacy(v) THEN raw ELSE normalizedEmail(raw)

\* bcrypt: hash(password, 10) draws a salt; compare re-hashes with the hash's salt.
SaltRounds == 10
Salts == {"s1"}
bcryptHash(password, salt) == [rounds |-> SaltRounds, salt |-> salt, of |-> password]
bcryptCompare(password, hash) == hash = bcryptHash(password, hash.salt)

\* generateAndSendOtp's two durations, in ms.
OtpLifetime == 5 * 60 * 1000
ResendCooldown == 60 * 1000

\* The instants the clock is read at: the start, and just before, on and just
\* after the end of the cooldown and the expiry of a code issued at the start.
Start == 1
Instants ==
  {Start, Start + 1,
   Start + ResendCooldown - 1, Start + ResendCooldown, Start + ResendCooldown + 1,
   Start + OtpLifetime, Start + OtpLifetime + 1}

\* Math.ceil(ms / 1000) for ms > 0.
CeilSeconds(ms) == (ms + 999) \div 1000

\* ------------------------------------------------------------------- state
Procs == {1, 2}

\* The identities the requests can name.
Identities == {normalizedEmail(e) : e \in RawEmails}

VARIABLES
  variant,   \* which file is deployed
  users,     \* the User collection: a set of documents
  now,       \* Date.now()
  nreq,      \* requests received
  pc,        \* per request slot: where its handler stands
  req,       \* per slot: the request (route and body)
  doc,       \* per slot: the document findOne returned ({} or {d}), as loaded
  upd,       \* per slot: the values the handler assigned to the document's paths
  resp,      \* per slot: the response sent ({} while none)
  hist       \* per identity: the history of its OTP flow (not program state)

vars == <<variant, users, now, nreq, pc, req, doc, upd, resp, hist>>

\* A user document.  server.js / part_000 have no OTP paths: they stay undefined.
NewUser(email, hash) ==
  [email |-> email, password |-> hash, otp |-> Undefined,
   otpExpiry |-> UndefinedDate, otpResendCooldown |-> UndefinedDate]

\* User.findOne({ email }): exact match on the stored email.
findOne(email) == {u \in users : u.email = email}

\* The unique index on email: an insert of a stored email fails (E11000).
DuplicateKey(email) == \E u \in users : u.email = email

\* No path assigned: each path holds {} or the one value assigned to it.
NoUpd == [password |-> {}, otp |-> {}, otpExpiry |-> {}, otpResendCooldown |-> {}]

\* Mongoose marks a path modified when the value assigned differs from the one loaded.
Modified(loaded, u, path) == u[path] # {} /\ u[path] # {loaded[path]}

\* A save under an optimistic lock, which the code does not take: the write is
\* dropped when the stored document is no longer the one loaded.
SaveIfUnchanged(stored, loaded, u) ==
  IF stored = loaded
  THEN [k \in DOMAIN stored |->
          IF k \in DOMAIN u /\ Modified(loaded, u, k)
          THEN CHOOSE x \in u[k] : TRUE
          ELSE stored[k]]
  ELSE stored

\* document.save() of a loaded document: $set of its modified paths on the stored one.
SaveDelta(stored, loaded, u) ==
  [k \in DOMAIN stored |->
     IF k \in DOMAIN u /\ Modified(loaded, u, k)
     THEN CHOOSE x \in u[k] : TRUE
     ELSE stored[k]]

\* The collection after slot p's document is saved.
save(p) ==
  LET loaded == CHOOSE d \in doc[p] : TRUE IN
  {IF s.email = loaded.email THEN SaveDelta(s, loaded, upd[p]) ELSE s : s \in users}

NoReq == [route |-> "none", email |-> <<>>, password |-> Undefined, otp |-> Undefined]

\* okAt: when the last Issue that ended in success computed its cooldown (-1: none);
\* resetSince: a password reset succeeded since; mailed: the codes mails carried;
\* verified: verify-otp succeeded on an unexpired code since the last successful
\* Issue; lastWriter: the slot whose save last wrote the OTP paths.
NoHist == [okAt |-> -1, resetSince |-> FALSE, mailed |-> {}, verified |-> FALSE,
           lastWriter |-> 0]

Routes(v) ==
  IF IsLegacy(v) THEN {"register", "login"}
  ELSE {"register", "login", "forgot-password", "resend-otp", "verify-otp", "reset-password"}
IssueRoutes == {"forgot-password", "resend-otp"}

\* res.status(s).json({ message, ... }).  wait: the seconds in the throttling
\* message; cooldown: the cooldown of generateAndSendOtp's result; user: the user
\* object of the body.  Not part of the body: wrote (this request's save reached the
\* database), mailed / at (the code its mail carried and when it was generated),
\* sawCooldown (the otpResendCooldown its findOne returned).
Response(status, message) ==
  [status |-> status, message |-> message, wait |-> 0, cooldown |-> 0, user |-> {},
   wrote |-> FALSE, mailed |-> {}, at |-> -1, sawCooldown |-> UndefinedDate]

Init ==
  /\ variant \in Variants
  /\ users \in {{}, {NewUser(LookupEmail(variant, <<"a">>), bcryptHash("p1", s)) : s \in Salts}}
  /\ now = Start
  /\ nreq = 0
  /\ pc = [p \in Procs |-> "idle"]
  /\ req = [p \in Procs |-> NoReq]
  /\ doc = [p \in Procs |-> {}]
  /\ upd = [p \in Procs |-> NoUpd]
  /\ resp = [p \in Procs |-> {}]
  /\ hist = [e \in Identities |-> NoHist]

\* Time passes.  server.js and part_000 never read the clock.
Tick ==
  /\ ~IsLegacy(variant)
  /\ \E t \in Instants : t > now /\ now' = t
  /\ UNCHANGED <<variant, users, nreq, pc, req, doc, upd, resp, hist>>

Free(p) == pc[p] \in {"idle", "done"}

\* The emails the handlers of file v look up, over the emails a body can carry.
Lookups(v) == {LookupEmail(v, raw) : raw \in RawEmails}

\* The request body a route reads, the email as the handler looks it up.
Body(route, email, password, otp) ==
  [route |-> route, email |-> email, password |-> password, otp |-> otp]

\* req.body.password: absent, or a string.
BodyPasswords == Passwords \cup {Undefined}

\* A request with body b arrives, one of at most max, and takes the lowest free slot p.  The responses
\* already sent are forgotten: they are output, not state of the server.  The
\* handler runs to its first await on the database, which the step that receives
\* the request goes on to resolve.
Receive(p, b, max) ==
  /\ b.route \in Routes(variant)
  /\ Free(p)
  /\ nreq < max
  /\ \A q \in Procs : q < p => ~Free(q)
  /\ nreq' = nreq + 1
  /\ req' = [q \in Procs |-> IF q = p THEN b ELSE IF Free(q) THEN NoReq ELSE req[q]]

\* The slots after the handler of slot p, just received, awaits again at `at`.
Await(p, at) ==
  /\ pc' = [q \in Procs |-> IF q = p THEN at ELSE IF Free(q) THEN "idle" ELSE pc[q]]
  /\ resp' = [q \in Procs |-> IF Free(q) THEN {} ELSE resp[q]]

\* The slots after the handler of slot p, just received, answers r and ends.
Answer(p, r) ==
  /\ pc' = [q \in Procs |-> IF q = p THEN "done" ELSE IF Free(q) THEN "idle" ELSE pc[q]]
  /\ resp' = [q \in Procs |-> IF q = p THEN {r} ELSE IF Free(q) THEN {} ELSE resp[q]]
  /\ UNCHANGED <<doc, upd>>

\* The handler of slot p, resumed from an await, answers r and ends.
Reply(p, r) ==
  /\ pc' = [pc EXCEPT ![p] = "done"]
  /\ resp' = [resp EXCEPT ![p] = {r}]
  /\ doc' = [doc EXCEPT ![p] = {}]
  /\ upd' = [upd EXCEPT ![p] = NoUpd]

\* ---------------------------------------------------------------- register
\* await User.findOne(...); if (existingUser) return 400.
Register(p, max) ==
  /\ \E email \in Lookups(variant), password \in BodyPasswords :
       LET b == Body("register", email, password, Undefined) IN
       /\ Receive(p, b, max)
       /\ IF findOne(b.email) # {}
          THEN Answer(p, Response(400, "Email already registered"))
          ELSE Await(p, "save") /\ UNCHANGED <<doc, upd>>
  /\ UNCHANGED <<variant, users, now, hist>>

\* await bcrypt.hash(password, 10); await newUser.save(); 201.  A throw of
\* either (no password, a duplicate key, the database) is answered 400.
RegisterSave(p) ==
  /\ pc[p] = "save" /\ req[p].route = "register"
  /\ \/ /\ req[p].password # Undefined
        /\ ~DuplicateKey(req[p].email)
        /\ \E salt \in Salts :
             users' = users \cup {NewUser(req[p].email, bcryptHash(req[p].password, salt))}
        /\ Reply(p, Response(201, "User registered successfully"))
     \/ /\ UNCHANGED users
        /\ Reply(p, Response(400, "Error registering user"))
  /\ UNCHANGED <<variant, now, nreq, req, hist>>

\* ------------------------------------------------------------------- login
\* part_001: const { password: _p, ...safeUser } = user.toObject().
safeUser(u) == [k \in DOMAIN u \ {"password"} |-> u[k]]

\* The user object of the login body: part_001 strips the hash, the others send the document.
LoginUser(v, u) == IF IsLegacy(v) THEN u ELSE safeUser(u)

InvalidLogin(v) ==
  IF IsLegacy(v) THEN "Invalid email or password. Please register first."
  ELSE "Invalid email or password"

\* The login handler on the collection as it stands.
LoginResult(v, email, password) ==
  LET found == findOne(email) IN
  IF found = {} THEN Response(400, InvalidLogin(v))
  ELSE LET user == CHOOSE u \in found : TRUE IN
       IF password = Undefined THEN Response(500, "Server error")
       ELSE IF ~bcryptCompare(password, user.password) THEN Response(400, InvalidLogin(v))
       ELSE [Response(200, "Login successful") EXCEPT !.user = {LoginUser(v, user)}]

Login(p, max) ==
  /\ \E email \in Lookups(variant), password \in BodyPasswords :
       LET b == Body("login", email, password, Undefined) IN
       /\ Receive(p, b, max)
       /\ \/ Answer(p, LoginResult(variant, b.email, b.password))
          \/ Answer(p, Response(500, "Server error"))
  /\ UNCHANGED <<variant, users, now, hist>>

\* ------------------------------------------------- generateAndSendOtp (Issue)
\* The catch of /forgot-password answers 404 for 'User not found' and 500
\* otherwise; that of /resend-otp always 500.  Both send err.message.
IssueError(route, message) ==
  Response(IF route = "forgot-password" /\ message = "User not found" THEN 404 ELSE 500,
           message)

\* user.otpResendCooldown && user.otpResendCooldown > Date.now()
CooldownActive(user, t) == user.otpResendCooldown >= 0 /\ user.otpResendCooldown > t

\* The throttling error: Math.ceil((user.otpResendCooldown - Date.now()) / 1000) seconds.
Throttled(route, user, t) ==
  [IssueError(route, "Please wait N seconds before requesting a new OTP")
     EXCEPT !.wait = CeilSeconds(user.otpResendCooldown - t),
            !.sawCooldown = user.otpResendCooldown]

\* What generateAndSendOtp assigns to the document at time t, having drawn otp.
IssueAssign(otp, t) ==
  [NoUpd EXCEPT !.otp = {otp},
                !.otpExpiry = {t + OtpLifetime},
                !.otpResendCooldown = {t + ResendCooldown}]

\* findOne, the cooldown check, and the assignments up to the call of save().
Issue(p, max) ==
  /\ \E route \in IssueRoutes, email \in Lookups(variant) :
       LET b == Body(route, email, Undefined, Undefined) IN
       /\ Receive(p, b, max)
       /\ LET found == findOne(b.email) IN
          \/ /\ found = {}
             /\ Answer(p, IssueError(b.route, "User not found"))
          \/ /\ found # {}
             /\ LET user == CHOOSE u \in found : TRUE IN
                IF CooldownActive(user, now)
                THEN Answer(p, Throttled(b.route, user, now))
                ELSE /\ \E otp \in OtpCodes :
                          upd' = [upd EXCEPT ![p] = IssueAssign(otp, now)]
                     /\ doc' = [doc EXCEPT ![p] = {user}]
                     /\ Await(p, "save")
          \/ Answer(p, IssueError(b.route, "Database error"))
  /\ UNCHANGED <<variant, users, now, hist>>

\* await user.save()
IssueSave(p) ==
  /\ pc[p] = "save" /\ req[p].route \in IssueRoutes
  /\ \/ /\ users' = save(p)
        /\ pc' = [pc EXCEPT ![p] = "sendMail"]
        /\ hist' = [hist EXCEPT ![req[p].email].lastWriter = p]
        /\ UNCHANGED <<doc, upd, resp>>
     \/ /\ Reply(p, IssueError(req[p].route, "Database error"))
        /\ UNCHANGED <<users, hist>>
  /\ UNCHANGED <<variant, now, nreq, req>>

\* await transporter.sendMail(mailOptions); return { message, cooldown: 60 }
IssueSendMail(p) ==
  /\ pc[p] = "sendMail" /\ req[p].route \in IssueRoutes
  /\ LET otp == CHOOSE x \in upd[p].otp : TRUE
         at == (CHOOSE x \in upd[p].otpResendCooldown : TRUE) - ResendCooldown
         loaded == CHOOSE d \in doc[p] : TRUE
     IN
     \/ /\ Reply(p, [Response(200, "OTP sent to email")
                       EXCEPT !.cooldown = 60, !.wrote = TRUE, !.mailed = {otp}, !.at = at,
                              !.sawCooldown = loaded.otpResendCooldown])
        /\ hist' = [hist EXCEPT ![req[p].email].okAt = at,
                                ![req[p].email].resetSince = FALSE,
                                ![req[p].email].verified = FALSE,
                                ![req[p].email].mailed = @ \cup {otp}]
     \/ /\ Reply(p, [IssueError(req[p].route, "Mail error") EXCEPT !.wrote = TRUE])
        /\ UNCHANGED hist
  /\ UNCHANGED <<variant, users, now, nreq, req>>

\* -------------------------------------------------------------- verify-otp
\* user.otpExpiry < Date.now(): undefined compares as NaN, null as 0.
DateBefore(d, t) ==
  IF d = UndefinedDate THEN FALSE
  ELSE IF d = NullDate THEN 0 < t
  ELSE d < t

\* The verify-otp handler on the collection as it stands, at time t.
VerifyResult(email, otp, t) ==
  LET found == findOne(email) IN
  IF found = {} \/ (CHOOSE u \in found : TRUE).otp # otp
  THEN Response(400, "Invalid OTP")
  ELSE IF DateBefore((CHOOSE u \in found : TRUE).otpExpiry, t)
       THEN Response(400, "OTP has expired")
       ELSE Response(200, "OTP verified successfully")

VerifyOtp(p, max) ==
  /\ \E email \in Lookups(variant), otp \in Candidates :
       LET b == Body("verify-otp", email, Undefined, otp) IN
       /\ Receive(p, b, max)
       /\ \/ LET r == VerifyResult(b.email, b.otp, now) IN
             /\ Answer(p, r)
             /\ hist' = [hist EXCEPT ![b.email].verified =
                           @ \/ (r.status = 200 /\ b.otp \in OtpCodes)]
          \/ /\ Answer(p, Response(500, "Error verifying OTP"))
             /\ UNCHANGED hist
  /\ UNCHANGED <<variant, users, now>>

\* ---------------------------------------------------------- reset-password
ResetPassword(p, max) ==
  /\ \E email \in Lookups(variant), password \in BodyPasswords :
       LET b == Body("reset-password", email, password, Undefined) IN
       /\ Receive(p, b, max)
       /\ LET found == findOne(b.email) IN
          \/ /\ found = {}
             /\ Answer(p, Response(404, "User not found"))
          \/ /\ found # {}
             /\ doc' = [doc EXCEPT ![p] = found]
             /\ Await(p, "save")
             /\ UNCHANGED upd
          \/ Answer(p, Response(500, "Error resetting password"))
  /\ UNCHANGED <<variant, users, now, hist>>

\* What the handler assigns before save(): the new hash, and null to the OTP paths.
ResetAssign(hash) ==
  [password |-> {hash}, otp |-> {Null}, otpExpiry |-> {NullDate},
   otpResendCooldown |-> {NullDate}]

\* await bcrypt.hash(password, 10); the four assignments; await user.save().
ResetSave(p) ==
  /\ pc[p] = "save" /\ req[p].route = "reset-password"
  /\ \/ /\ req[p].password # Undefined
        /\ \E salt \in Salts :
             LET loaded == CHOOSE d \in doc[p] : TRUE
                 u == ResetAssign(bcryptHash(req[p].password, salt))
             IN users' = {IF s.email = loaded.email THEN SaveDelta(s, loaded, u) ELSE s
                            : s \in users}
        /\ Reply(p, [Response(200, "Password reset successful") EXCEPT !.wrote = TRUE])
        /\ hist' = [hist EXCEPT ![req[p].email].resetSince = TRUE,
                                ![req[p].email].lastWriter = p]
     \/ /\ Reply(p, Response(500, "Error resetting password"))
        /\ UNCHANGED <<users, hist>>
  /\ UNCHANGED <<variant, now, nreq, req>>

\* ------------------------------------------------------------ specifications
Step(p, max) ==
  \/ Register(p, max)
  \/ RegisterSave(p)
  \/ Login(p, max)
  \/ Issue(p, max)
  \/ IssueSave(p)
  \/ IssueSendMail(p)
  \/ VerifyOtp(p, max)
  \/ ResetPassword(p, max)
  \/ ResetSave(p)

\* Requests interleave at their awaits.
Next == Tick \/ \E p \in Procs : Step(p, MaxRequests)
Spec == Init /\ [][Next]_vars

\* One request at a time: each is answered before the next arrives.
NextSeq == Tick \/ Step(1, MaxSeqRequests)
SpecSeq == Init /\ [][NextSeq]_vars

\* Two requests, interleaved at their awaits.
NextPair == Tick \/ \E p \in Procs : Step(p, MaxPairRequests)
SpecPair == Init /\ [][NextPair]_vars

\* ------------------------------------------------------------------ claims
\* This step receives a request for `route` at slot p.
Received(p, route) == nreq' = nreq + 1 /\ req'[p].route = route

\* This step receives a request for `route` at slot p and answers it.
Answered(p, route) == Received(p, route) /\ pc'[p] = "done"

\* Slot p holds the answer to a request for `route`.
Done(p, route) == pc[p] = "done" /\ req[p].route = route

\* C1: verify-otp answers 400 'Invalid OTP' whenever the identity has no stored
\* code (never issued, or cleared by a reset), whatever candidate the request
\* carries, a missing or null otp included.  (A failing database is answered 500.)
C1_NoCodeIsInvalid ==
  \A p \in Procs : Done(p, "verify-otp") =>
    \A u \in findOne(req[p].email), r \in resp[p] :
      (u.otp \in {Undefined, Null} /\ r.status # 500)
        => (r.status = 400 /\ r.message = "Invalid OTP")

\* C2: verify-otp with the stored code answers 'OTP has expired' at every now
\* with otpExpiry <= now, the expiry instant included, and succeeds at every now
\* with now < otpExpiry.
C2_ExpiredAtOrAfterExpiry ==
  [][\A p \in Procs : Answered(p, "verify-otp") =>
       \A u \in findOne(req'[p].email), r \in resp'[p] :
         (u.otp \in OtpCodes /\ req'[p].otp = u.otp /\ u.otpExpiry >= 0 /\ r.status # 500)
           => IF u.otpExpiry <= now
              THEN r.status = 400 /\ r.message = "OTP has expired"
              ELSE r.status = 200 /\ r.message = "OTP verified successfully"]_vars

\* C3: after any sequence of registrations there is at most one record per
\* normalized (trimmed, lower-cased) email: a registration whose email normalizes
\* to that of a record is answered 400 and creates none.
C3_OneRecordPerNormalizedEmail ==
  /\ \A u1, u2 \in users :
       normalizedEmail(u1.email) = normalizedEmail(u2.email) => u1 = u2
  /\ \A p \in Procs : Done(p, "register") =>
       \A r \in resp[p] :
         r.status = 201 =>
           Cardinality({u \in users : normalizedEmail(u.email) = normalizedEmail(req[p].email)}) = 1

\* C4: no login response carries the stored password hash: on success the user
\* object has every field of the record but password, on failure there is none.
C4_LoginNeverReturnsHash ==
  \A p \in Procs : Done(p, "login") =>
    \A r \in resp[p] :
      /\ \A u \in r.user : "password" \notin DOMAIN u
      /\ r.status = 200 =>
           \E d \in findOne(req[p].email) :
             r.user = {[k \in DOMAIN d \ {"password"} |-> d[k]]}
      /\ r.status # 200 => r.user = {}

\* The throttling error of Issue.
IsThrottled(r) ==
  r.status = 500 /\ r.message = "Please wait N seconds before requesting a new OTP"

\* C5: after a successful Issue at time t (and no reset since), every later Issue
\* attempt, one at a time, at now < t + 60 s is rejected with the throttling error
\* carrying ceil((t + 60 s - now) / 1 s) seconds, changes no OTP path and sends no
\* message; an attempt at now >= t + 60 s is not throttled.
C5_ThrottledForSixtySeconds ==
  [][\A p \in Procs, route \in IssueRoutes : Received(p, route) =>
       LET h == hist[req'[p].email]
           end == h.okAt + ResendCooldown
       IN (h.okAt >= 0 /\ ~h.resetSince /\ findOne(req'[p].email) # {}
             /\ \A r \in resp'[p] : r.message # "Database error")
           => IF now < end
              THEN /\ pc'[p] = "done"
                   /\ \A r \in resp'[p] :
                        IsThrottled(r) /\ r.wait = CeilSeconds(end - now) /\ r.mailed = {}
                   /\ users' = users
              ELSE /\ pc'[p] = "save"
                   /\ resp'[p] = {}]_vars

\* The OTP paths of a document are cleared.
Cleared(u) == u.otp = Null /\ u.otpExpiry = NullDate /\ u.otpResendCooldown = NullDate

\* C6: a successful reset-password stores the hash of the new password and clears
\* otp, otpExpiry and otpResendCooldown in one write, after which login succeeds with
\* the new password and fails with any other; from then until the next successful
\* Issue, verify-otp with any code a mail carried before is rejected.
C6_ResetClearsCode ==
  [][/\ \A p \in Procs :
          (pc[p] = "save" /\ req[p].route = "reset-password" /\ pc'[p] = "done"
             /\ \A r \in resp'[p] : r.status = 200)
          => \A u \in users' : u.email = req[p].email =>
               /\ Cleared(u)
               /\ bcryptCompare(req[p].password, u.password)
               /\ \A w \in Passwords \ {req[p].password} : ~bcryptCompare(w, u.password)
     /\ \A p \in Procs : Answered(p, "verify-otp") =>
          LET h == hist[req'[p].email] IN
          (h.resetSince /\ req'[p].otp \in h.mailed)
            => \A r \in resp'[p] : r.status # 200]_vars

\* A Date path holds a date.
IsDate(d) == d >= 0

\* C7: in every state of every record, under any interleaving of the requests,
\* otp and otpExpiry are both set or both absent/null, and otpResendCooldown, when
\* set, is the issue time of the stored code (otpExpiry - 5 min) plus 60 s, hence
\* not before that issue time and not after otpExpiry.
C7_OtpFieldsConsistent ==
  \A u \in users :
    /\ (u.otp \in OtpCodes) <=> IsDate(u.otpExpiry)
    /\ IsDate(u.otpResendCooldown) =>
         /\ IsDate(u.otpExpiry)
         /\ u.otpResendCooldown = (u.otpExpiry - OtpLifetime) + ResendCooldown
         /\ u.otpResendCooldown >= u.otpExpiry - OtpLifetime
         /\ u.otpResendCooldown <= u.otpExpiry

\* C8: Issue is one fallible unit: its save changed the OTP paths if and only if
\* its mail was sent and it answered success; an Issue that ends in an error
\* leaves the OTP paths as they were.
C8_IssueIsAUnit ==
  \A p \in Procs, route \in IssueRoutes : Done(p, route) =>
    \A r \in resp[p] :
      /\ r.wrote <=> (r.mailed # {} /\ r.status = 200)
      /\ r.status # 200 => ~r.wrote

\* Slots p and q hold the answers of two Issues of one identity that both read
\* the record before any Issue or reset had written it, both succeeded, and
\* mailed different codes.
Raced(p, q) ==
  /\ p # q
  /\ \E rp \in IssueRoutes : Done(p, rp)
  /\ \E rq \in IssueRoutes : Done(q, rq)
  /\ req[p].email = req[q].email
  /\ \A r \in resp[p] \cup resp[q] :
       r.status = 200 /\ r.sawCooldown = UndefinedDate /\ r.mailed # {}
  /\ \A a \in resp[p], b \in resp[q] : a.mailed # b.mailed

\* C9: when two concurrent Issues of one identity both read the record before
\* either wrote, both passed the cooldown check and both answered success with
\* different codes, the stored code is that of the one that wrote last, and the
\* code of the other mail does not validate.
C9_LastWriterWins ==
  \A p, q \in Procs :
    (Raced(p, q) /\ hist[req[q].email].lastWriter = q) =>
      \A a \in resp[p], b \in resp[q], u \in findOne(req[q].email) :
        /\ {u.otp} = b.mailed
        /\ \A c \in a.mailed : VerifyResult(req[p].email, c, now).message = "Invalid OTP"

\* C9: such a race is reachable, the two codes generated less than 60 s apart.
C9_RaceReached ==
  \E p, q \in Procs :
    /\ Raced(p, q)
    /\ hist[req[q].email].lastWriter = q
    /\ \A a \in resp[p], b \in resp[q] :
         /\ a.at # b.at
         /\ a.at - b.at < ResendCooldown /\ b.at - a.at < ResendCooldown
         /\ \A u \in findOne(req[q].email) : {u.otp} = b.mailed
         /\ \A c \in a.mailed : VerifyResult(req[p].email, c, now).status = 400

\* C10: the stored hash of an identity changes only in reset-password, and only if,
\* since its last successful Issue, verify-otp succeeded on a code not yet expired.
C10_ResetNeedsVerifiedCode ==
  [][\A u \in users, v \in users' :
       (u.email = v.email /\ u.password # v.password)
         => /\ \E p \in Procs : pc[p] = "save" /\ req[p].route = "reset-password"
                                  /\ req[p].email = u.email /\ pc'[p] = "done"
            /\ hist[normalizedEmail(u.email)].verified]_vars
====
